---- MODULE Spec2Model ----
(***************************************************************************)
(* State-machine model of OptimizedQuadrantZoomViewer (src/main.py): the   *)
(* quadrant-path tile cache and the animated navigation engine.            *)
(*                                                                         *)
(* Strings are sequences of one-character strings, so that formatting      *)
(* (f-strings, str), parsing (split, int) and joining are computed, not    *)
(* assumed.  An image handle is a record [id, size]; the size of a PIL     *)
(* image never changes, the "closed" status of a handle lives in the       *)
(* variable closed.  The dict _image_cache is a sequence of [key, img]     *)
(* records in insertion order, the order Python dicts iterate in.          *)
(* View limits are integer numerators over ViewDen = (F-1)^3, the          *)
(* denominator of the smoothstep easing at frame f of F.                   *)
(*                                                                         *)
(* The files on disk belong to the environment: every Image.open call may  *)
(* find its file or raise FileNotFoundError.  The memo tables of           *)
(* get_image_filename (lru_cache) and get_quadrant_bounds                  *)
(* (_quadrant_bounds_cache) hold values of pure functions and are not      *)
(* state of the model; of the matplotlib objects only the axes limits are. *)
(***************************************************************************)
EXTENDS Integers, Sequences, FiniteSets, TLC

\* ------------------------------------------------------------------ bounds
\* capacity of the image cache (constructor argument cache_size)
cache_size == 1
\* zoom-in requests are accepted by the environment up to this path depth
MaxDepth == 2
\* image handles the loader and the placeholder generator create in a run
MaxHandles == 4
\* largest width and height of the images the hover classification is run on
MaxSide == 6

\* ------------------------------------------------------- program constants
animation_frames == 20
PlaceholderSide == 400

\* sizes of the images the files on disk decode to
ImageSizes == {<<6, 5>>}
\* pointer positions (xdata, ydata) the canvas reports inside the axes
MousePoints == {<<1, 1>>, <<1, 250>>}

\* image sizes and pointer positions for the hover classification: every size
\* up to MaxSide x MaxSide with every pixel of it, and the placeholder with
\* the points on its midlines
HoverSizes == (1..MaxSide) \X (1..MaxSide)
HoverPoints ==
    ((0..(MaxSide - 1)) \X (0..(MaxSide - 1)))
        \cup {<<PlaceholderSide \div 2, PlaceholderSide \div 2>>,
               <<PlaceholderSide \div 2, 0>>, <<0, PlaceholderSide \div 2>>}

root_image_path == <<"r", "o", "o", "t", ".", "j", "p", "g">>
PlaceholderKey == <<"p", "l", "a", "c", "e", "h", "o", "l", "d", "e", "r">>

\* Python's None, for a string, a bounds tuple and an image handle
NoneStr == <<"None">>
NoneBounds == <<>>
NoneImage == [id |-> 0, size |-> <<0, 0>>]

VARIABLES
    current_path,       \* string
    current_image,      \* handle or NoneImage
    mouse_quadrant,
    is_animating,
    current_frame,
    zoom_start_bounds,
    zoom_end_bounds,
    pending_path,
    zoom_direction,
    animation_timer,    \* "None" or "running"
    image_cache,        \* sequence of [key, img], oldest first
    closed,             \* ids of the handles close() was called on
    next_id,            \* id of the next handle created
    xlim, ylim,         \* view limits handed to the axes, times ViewDen
    last_load,          \* the last load_current_image call: its key, whether it
                        \* called Image.open, whether that raised
    failed_load,        \* the last load that fell back to the placeholder: its
                        \* key and the handle it left in current_image
    shutdown            \* plt.show() has returned and cleanup() has run

vars == <<current_path, current_image, mouse_quadrant, is_animating, current_frame,
          zoom_start_bounds, zoom_end_bounds, pending_path, zoom_direction,
          animation_timer, image_cache, closed, next_id, xlim, ylim,
          last_load, failed_load, shutdown>>

\* ----------------------------------------------------------------- strings
Digits == <<"0", "1", "2", "3", "4", "5", "6", "7", "8", "9">>

\* str(n) for a natural number
RECURSIVE IntToStr(_)
IntToStr(n) ==
    IF n < 10 THEN <<Digits[n + 1]>>
    ELSE IntToStr(n \div 10) \o <<Digits[(n % 10) + 1]>>

DigitValue(c) == (CHOOSE i \in 1..10 : Digits[i] = c) - 1

\* int(s) for a non-empty string of decimal digits
RECURSIVE StrToInt(_)
StrToInt(s) ==
    IF Len(s) = 1 THEN DigitValue(s[1])
    ELSE 10 * StrToInt(SubSeq(s, 1, Len(s) - 1)) + DigitValue(s[Len(s)])

\* s.split(sep) for a one-character separator: a list of Len(separators)+1 parts
RECURSIVE Split(_, _)
Split(s, sep) ==
    IF \A i \in 1..Len(s) : s[i] # sep THEN <<s>>
    ELSE LET i == CHOOSE j \in 1..Len(s) :
                      s[j] = sep /\ \A k \in 1..(j - 1) : s[k] # sep
         IN  <<SubSeq(s, 1, i - 1)>> \o Split(SubSeq(s, i + 1, Len(s)), sep)

\* sep.join(parts)
RECURSIVE Join(_, _)
Join(parts, sep) ==
    IF parts = <<>> THEN <<>>
    ELSE IF Len(parts) = 1 THEN parts[1]
    ELSE parts[1] \o <<sep>> \o Join(Tail(parts), sep)

LastIndexOf(s, c) ==
    IF \E i \in 1..Len(s) : s[i] = c
    THEN CHOOSE i \in 1..Len(s) : s[i] = c /\ \A k \in (i + 1)..Len(s) : s[k] # c
    ELSE 0

\* os.path.splitext(p): the extension starts at the last dot of the last path
\* component, unless that component has nothing but dots before it
splitext(p) ==
    LET sepIndex == LastIndexOf(p, "/")
        dotIndex == LastIndexOf(p, ".")
    IN  IF dotIndex > sepIndex
           /\ \E k \in (sepIndex + 1)..(dotIndex - 1) : p[k] # "."
        THEN <<SubSeq(p, 1, dotIndex - 1), SubSeq(p, dotIndex, Len(p))>>
        ELSE <<p, <<>>>>

get_image_filename(path) ==
    IF path = <<>> THEN root_image_path
    ELSE LET base_name == splitext(root_image_path)[1]
             extension == splitext(root_image_path)[2]
         IN  base_name \o <<"_">> \o path \o extension

\* ------------------------------------------------------------- image cache
CacheKeys(cache) == {cache[i].key : i \in 1..Len(cache)}

\* cache[key]
CacheGet(cache, key) ==
    cache[CHOOSE i \in 1..Len(cache) : cache[i].key = key].img

\* cache[key] = img: a new key goes last, a present key keeps its place
CacheSet(cache, key, img) ==
    IF key \in CacheKeys(cache)
    THEN [i \in 1..Len(cache) |->
             IF cache[i].key = key THEN [key |-> key, img |-> img] ELSE cache[i]]
    ELSE Append(cache, [key |-> key, img |-> img])

\* what Image.open can answer for a file: an image of some size, or
\* FileNotFoundError
LoaderOutcomes ==
    {[found |-> TRUE, size |-> s] : s \in ImageSizes}
        \cup {[found |-> FALSE, size |-> <<0, 0>>]}

create_placeholder_image(id) ==
    [id |-> id, size |-> <<PlaceholderSide, PlaceholderSide>>]

\* an eviction that pops the oldest key and closes the newest image
EvictOldest_ClosesNewest(cache, cl) ==
    IF Len(cache) >= cache_size
    THEN [cache |-> Tail(cache), closed |-> cl \cup {cache[Len(cache)].img.id}]
    ELSE [cache |-> cache, closed |-> cl]

\* The eviction of load_current_image: when the dict is full its first key is
\* popped and the image closed.  Gives the cache and the closed set after it.
EvictOldest(cache, cl) ==
    IF Len(cache) >= cache_size
    THEN [cache |-> Tail(cache), closed |-> cl \cup {Head(cache).img.id}]
    ELSE [cache |-> cache, closed |-> cl]

\* an except branch that makes room in a full cache before it caches the
\* placeholder
PlaceholderFallback_Evicts(cache, cl, nid) ==
    IF PlaceholderKey \notin CacheKeys(cache)
    THEN LET ph == create_placeholder_image(nid)
             room == IF Len(cache) >= cache_size THEN Tail(cache) ELSE cache
             gone == IF Len(cache) >= cache_size THEN {Head(cache).img.id} ELSE {}
         IN  [image |-> ph, cache |-> CacheSet(room, PlaceholderKey, ph),
              closed |-> cl \cup gone, next_id |-> nid + 1, opened |-> TRUE,
              failed |-> TRUE]
    ELSE [image |-> CacheGet(cache, PlaceholderKey), cache |-> cache,
          closed |-> cl, next_id |-> nid, opened |-> TRUE, failed |-> TRUE]

\* an except branch that makes a placeholder for the current image without
\* caching it
PlaceholderFallback_NotCached(cache, cl, nid) ==
    [image |-> create_placeholder_image(nid), cache |-> cache,
     closed |-> cl, next_id |-> nid + 1, opened |-> TRUE, failed |-> TRUE]

\* The except branch of load_current_image: the placeholder is created and
\* cached if it is not there, and becomes the current image.
PlaceholderFallback(cache, cl, nid) ==
    IF PlaceholderKey \notin CacheKeys(cache)
    THEN LET ph == create_placeholder_image(nid)
         IN  [image |-> ph, cache |-> CacheSet(cache, PlaceholderKey, ph),
              closed |-> cl, next_id |-> nid + 1, opened |-> TRUE, failed |-> TRUE]
    ELSE [image |-> CacheGet(cache, PlaceholderKey), cache |-> cache,
          closed |-> cl, next_id |-> nid, opened |-> TRUE, failed |-> TRUE]

\* The try branch of load_current_image once Image.open has returned img.
InsertLoaded(filename, img, cache, cl, nid) ==
    LET ev == EvictOldest(cache, cl)
    IN  [image |-> img, cache |-> CacheSet(ev.cache, filename, img),
         closed |-> ev.closed, next_id |-> nid + 1, opened |-> TRUE, failed |-> FALSE]

\* load_current_image for the path `path`: the set of its possible results, one
\* per answer of the loader (a single one on a cache hit, when it is not asked).
\* A result holds the new current_image, cache, closed set and next handle id.
load_current_image(path, cache, cl, nid) ==
    LET filename == get_image_filename(path)
    IN  IF filename \in CacheKeys(cache)
        THEN {[image |-> CacheGet(cache, filename), cache |-> cache, closed |-> cl,
               next_id |-> nid, opened |-> FALSE, failed |-> FALSE]}
        ELSE {IF outcome.found
              THEN InsertLoaded(filename, [id |-> nid, size |-> outcome.size],
                                cache, cl, nid)
              ELSE PlaceholderFallback(cache, cl, nid) : outcome \in LoaderOutcomes}

\* ---------------------------------------------------------------- geometry
\* get_quadrant_bounds on the image img (self.current_image at the call)
get_quadrant_bounds(img, quadrant) ==
    IF img = NoneImage THEN <<0, 0, 0, 0>>
    ELSE LET img_width == img.size[1]
             img_height == img.size[2]
             mid_x == img_width \div 2
             mid_y == img_height \div 2
         IN  CASE quadrant = 0 -> <<0, 0, mid_x, mid_y>>
               [] quadrant = 1 -> <<mid_x, 0, img_width, mid_y>>
               [] quadrant = 2 -> <<0, mid_y, mid_x, img_height>>
               [] quadrant = 3 -> <<mid_x, mid_y, img_width, img_height>>

\* a hover classification that leaves the points on a midline to the
\* lower-index quadrant
new_quadrant_StrictMidline(img, x, y) ==
    LET mid_x == img.size[1] \div 2
        mid_y == img.size[2] \div 2
    IN  (IF y > mid_y THEN 2 ELSE 0) + (IF x > mid_x THEN 1 ELSE 0)

\* the hover classification of on_mouse_move
new_quadrant(img, x, y) ==
    LET mid_x == img.size[1] \div 2
        mid_y == img.size[2] \div 2
    IN  (IF y >= mid_y THEN 2 ELSE 0) + (IF x >= mid_x THEN 1 ELSE 0)

\* ------------------------------------------------------------------- views
\* denominator of the eased parameter: t*t*(3-2t) with t = f/(F-1)
ViewDen == (animation_frames - 1) * (animation_frames - 1) * (animation_frames - 1)

\* an eased parameter computed with t = f/F scaled as if it were f/(F-1)
EaseNum_OverFrames(frame) == frame * frame * (3 * animation_frames - 2 * frame)

\* numerator of the eased parameter at frame `frame`
EaseNum(frame) == frame * frame * (3 * (animation_frames - 1) - 2 * frame)

\* start * inv_t + end * t, as a numerator over ViewDen
Interpolate(start, end, frame) ==
    start * (ViewDen - EaseNum(frame)) + end * EaseNum(frame)

\* a display_image that hands the Y limits over in image order
display_image_NoFlip(img, animating, xl, yl) ==
    IF ~animating
    THEN [xlim |-> <<0, img.size[1] * ViewDen>>, ylim |-> <<0, img.size[2] * ViewDen>>]
    ELSE [xlim |-> xl, ylim |-> yl]

\* The limits display_image leaves on the axes: the full image, Y flipped,
\* when not animating; untouched otherwise.
display_image(img, animating, xl, yl) ==
    IF ~animating
    THEN [xlim |-> <<0, img.size[1] * ViewDen>>, ylim |-> <<img.size[2] * ViewDen, 0>>]
    ELSE [xlim |-> xl, ylim |-> yl]

\* ------------------------------------------------------------ observations
NoLoad == [key |-> NoneStr, img |-> NoneImage]

\* what a load_current_image call with result r leaves in last_load and
\* failed_load
ObserveLoad(path, r) ==
    /\ last_load' = [key |-> get_image_filename(path), opened |-> r.opened,
                     failed |-> r.failed]
    /\ failed_load' = IF r.failed
                      THEN [key |-> get_image_filename(path), img |-> r.image]
                      ELSE failed_load

\* number of quadrants in a path string
Depth(path) == IF path = <<>> THEN 0 ELSE Len(Split(path, "_"))

Quadrants == 0..3

\* ------------------------------------------------------------ construction
\* __init__: the root image is loaded and displayed
Init ==
    \E r \in load_current_image(<<>>, <<>>, {}, 1) :
        LET d == display_image(r.image, FALSE, <<0, ViewDen>>, <<0, ViewDen>>)
        IN  /\ current_path = <<>>
            /\ current_image = r.image
            /\ mouse_quadrant = 0
            /\ is_animating = FALSE
            /\ current_frame = 0
            /\ zoom_start_bounds = NoneBounds
            /\ zoom_end_bounds = NoneBounds
            /\ pending_path = NoneStr
            /\ zoom_direction = 1
            /\ animation_timer = "None"
            /\ image_cache = r.cache
            /\ closed = r.closed
            /\ next_id = r.next_id
            /\ xlim = d.xlim
            /\ ylim = d.ylim
            /\ last_load = [key |-> get_image_filename(<<>>), opened |-> r.opened,
                            failed |-> r.failed]
            /\ failed_load = IF r.failed
                             THEN [key |-> get_image_filename(<<>>), img |-> r.image]
                             ELSE NoLoad
            /\ shutdown = FALSE

\* __init__ when root.jpg decodes to any of the sizes of HoverSizes, or is
\* missing
InitHover ==
    \E r \in {InsertLoaded(get_image_filename(<<>>), [id |-> 1, size |-> sz],
                            <<>>, {}, 1) : sz \in HoverSizes}
                 \cup {PlaceholderFallback(<<>>, {}, 1)} :
        LET d == display_image(r.image, FALSE, <<0, ViewDen>>, <<0, ViewDen>>)
        IN  /\ current_path = <<>>
            /\ current_image = r.image
            /\ mouse_quadrant = 0
            /\ is_animating = FALSE
            /\ current_frame = 0
            /\ zoom_start_bounds = NoneBounds
            /\ zoom_end_bounds = NoneBounds
            /\ pending_path = NoneStr
            /\ zoom_direction = 1
            /\ animation_timer = "None"
            /\ image_cache = r.cache
            /\ closed = r.closed
            /\ next_id = r.next_id
            /\ xlim = d.xlim
            /\ ylim = d.ylim
            /\ last_load = [key |-> get_image_filename(<<>>), opened |-> r.opened,
                            failed |-> r.failed]
            /\ failed_load = IF r.failed
                             THEN [key |-> get_image_filename(<<>>), img |-> r.image]
                             ELSE NoLoad
            /\ shutdown = FALSE

\* ---------------------------------------------------------------- handlers
\* animate_zoom(frame)
animate_zoom(frame) ==
    IF frame >= animation_frames
    THEN /\ is_animating' = FALSE
         /\ IF zoom_direction = 1
            THEN \E r \in load_current_image(pending_path, image_cache, closed, next_id) :
                     LET d == display_image(r.image, FALSE, xlim, ylim)
                     IN  /\ r.next_id <= MaxHandles + 1
                         /\ current_path' = pending_path
                         /\ current_image' = r.image
                         /\ image_cache' = r.cache
                         /\ closed' = r.closed
                         /\ next_id' = r.next_id
                         /\ xlim' = d.xlim
                         /\ ylim' = d.ylim
                         /\ ObserveLoad(pending_path, r)
            ELSE LET d == display_image(current_image, FALSE, xlim, ylim)
                 IN  /\ xlim' = d.xlim
                     /\ ylim' = d.ylim
                     /\ UNCHANGED <<current_path, current_image, image_cache, closed,
                                    next_id, last_load, failed_load>>
         /\ animation_timer' = "None"
         /\ UNCHANGED <<mouse_quadrant, zoom_start_bounds, zoom_end_bounds,
                        pending_path, zoom_direction, shutdown>>
    ELSE /\ xlim' = <<Interpolate(zoom_start_bounds[1], zoom_end_bounds[1], frame),
                      Interpolate(zoom_start_bounds[3], zoom_end_bounds[3], frame)>>
         /\ ylim' = <<Interpolate(zoom_start_bounds[4], zoom_end_bounds[4], frame),
                      Interpolate(zoom_start_bounds[2], zoom_end_bounds[2], frame)>>
         /\ UNCHANGED <<current_path, current_image, mouse_quadrant, is_animating,
                        zoom_start_bounds, zoom_end_bounds, pending_path,
                        zoom_direction, animation_timer, image_cache, closed,
                        next_id, last_load, failed_load, shutdown>>

\* a timer callback that advances the frame counter by two
animate_step_SkipsFrame ==
    IF current_frame >= animation_frames
    THEN /\ animate_zoom(current_frame)
         /\ current_frame' = current_frame
    ELSE /\ animate_zoom(current_frame)
         /\ current_frame' = current_frame + 2

\* animate_step, the timer callback
animate_step ==
    IF current_frame >= animation_frames
    THEN /\ animate_zoom(current_frame)
         /\ current_frame' = current_frame
    ELSE /\ animate_zoom(current_frame)
         /\ current_frame' = current_frame + 1

\* a zoom-in path built without the separator
append_path_NoSeparator(path, target_quadrant) ==
    path \o IntToStr(target_quadrant)

\* a zoom-in path built with the separator doubled
append_path_DoubleSeparator(path, target_quadrant) ==
    IF path # <<>>
    THEN path \o <<"_", "_">> \o IntToStr(target_quadrant)
    ELSE IntToStr(target_quadrant)

\* the path a zoom-in at target_quadrant leads to
append_path(path, target_quadrant) ==
    IF path # <<>>
    THEN path \o <<"_">> \o IntToStr(target_quadrant)
    ELSE IntToStr(target_quadrant)

\* a zoom-out that drops the first quadrant of the path, not the last
parent_path_DropsFirst(path) ==
    LET path_parts == Split(path, "_")
    IN  IF Len(path_parts) > 1
        THEN Join(SubSeq(path_parts, 2, Len(path_parts)), "_")
        ELSE <<>>

\* the path a zoom-out from the non-empty path leads to
parent_path(path) ==
    LET path_parts == Split(path, "_")
    IN  IF Len(path_parts) > 1
        THEN Join(SubSeq(path_parts, 1, Len(path_parts) - 1), "_")
        ELSE <<>>

\* a zoom-out that takes the first quadrant of the path for the one it leaves
last_quadrant_First(path) ==
    LET path_parts == Split(path, "_")
    IN  StrToInt(path_parts[1])

\* the quadrant a zoom-out from the non-empty path leaves
last_quadrant(path) ==
    LET path_parts == Split(path, "_")
    IN  StrToInt(path_parts[Len(path_parts)])

\* start_zoom_animation past its guard: the session is set up and the timer
\* started
ZoomSession(target_quadrant, zoom_in) ==
         LET img_width == current_image.size[1]
             img_height == current_image.size[2]
         IN
         /\ is_animating' = TRUE
         /\ zoom_direction' = IF zoom_in THEN 1 ELSE -1
         /\ IF zoom_in
            THEN /\ zoom_start_bounds' = <<0, 0, img_width, img_height>>
                 /\ zoom_end_bounds' = get_quadrant_bounds(current_image, target_quadrant)
                 /\ pending_path' = append_path(current_path, target_quadrant)
                 /\ UNCHANGED <<current_path, current_image, image_cache, closed,
                                next_id, last_load, failed_load>>
            ELSE IF current_path # <<>>
            THEN \E r \in load_current_image(parent_path(current_path), image_cache,
                                             closed, next_id) :
                     /\ r.next_id <= MaxHandles + 1
                     /\ current_path' = parent_path(current_path)
                     /\ current_image' = r.image
                     /\ image_cache' = r.cache
                     /\ closed' = r.closed
                     /\ next_id' = r.next_id
                     /\ ObserveLoad(parent_path(current_path), r)
                     /\ zoom_start_bounds' =
                            get_quadrant_bounds(r.image, last_quadrant(current_path))
                     /\ zoom_end_bounds' = <<0, 0, r.image.size[1], r.image.size[2]>>
                     /\ UNCHANGED pending_path
            ELSE /\ zoom_start_bounds' = <<0, 0, img_width, img_height>>
                 /\ zoom_end_bounds' = <<0, 0, img_width, img_height>>
                 /\ UNCHANGED <<current_path, current_image, image_cache, closed,
                                next_id, last_load, failed_load, pending_path>>
         /\ current_frame' = 0
         /\ animation_timer' = "running"
         /\ UNCHANGED <<mouse_quadrant, xlim, ylim, shutdown>>

\* start_zoom_animation without its guard: a request restarts a running session
start_zoom_animation_Restarts(target_quadrant, zoom_in) ==
    ZoomSession(target_quadrant, zoom_in)

\* start_zoom_animation(target_quadrant, zoom_in)
start_zoom_animation(target_quadrant, zoom_in) ==
    IF is_animating
    THEN UNCHANGED vars
    ELSE ZoomSession(target_quadrant, zoom_in)

\* an on_mouse_move that tracks the pointer during an animation as well
on_mouse_move_NoAnimGuard(event) ==
    IF ~event.inaxes \/ current_image = NoneImage
    THEN UNCHANGED vars
    ELSE IF event.data = <<>>
    THEN UNCHANGED vars
    ELSE LET q == new_quadrant(current_image, event.data[1], event.data[2])
         IN  IF q # mouse_quadrant
             THEN LET d == display_image(current_image, is_animating, xlim, ylim)
                  IN  /\ mouse_quadrant' = q
                      /\ xlim' = d.xlim
                      /\ ylim' = d.ylim
                      /\ UNCHANGED <<current_path, current_image, is_animating,
                                     current_frame, zoom_start_bounds, zoom_end_bounds,
                                     pending_path, zoom_direction, animation_timer,
                                     image_cache, closed, next_id, last_load,
                                     failed_load, shutdown>>
             ELSE UNCHANGED vars

\* on_mouse_move(event)
on_mouse_move(event) ==
    IF ~event.inaxes \/ current_image = NoneImage \/ is_animating
    THEN UNCHANGED vars
    ELSE IF event.data = <<>>
    THEN UNCHANGED vars
    ELSE LET q == new_quadrant(current_image, event.data[1], event.data[2])
         IN  IF q # mouse_quadrant
             THEN LET d == display_image(current_image, is_animating, xlim, ylim)
                  IN  /\ mouse_quadrant' = q
                      /\ xlim' = d.xlim
                      /\ ylim' = d.ylim
                      /\ UNCHANGED <<current_path, current_image, is_animating,
                                     current_frame, zoom_start_bounds, zoom_end_bounds,
                                     pending_path, zoom_direction, animation_timer,
                                     image_cache, closed, next_id, last_load,
                                     failed_load, shutdown>>
             ELSE UNCHANGED vars

\* on_scroll without the test for the root on a scroll down
on_scroll_NoRootGuard(event) ==
    IF ~event.inaxes \/ current_image = NoneImage \/ is_animating
    THEN UNCHANGED vars
    ELSE IF event.button = "up"
    THEN start_zoom_animation(mouse_quadrant, TRUE)
    ELSE IF event.button = "down"
    THEN start_zoom_animation(0, FALSE)
    ELSE UNCHANGED vars

\* on_scroll(event)
on_scroll(event) ==
    IF ~event.inaxes \/ current_image = NoneImage \/ is_animating
    THEN UNCHANGED vars
    ELSE IF event.button = "up"
    THEN start_zoom_animation(mouse_quadrant, TRUE)
    ELSE IF event.button = "down"
    THEN IF current_path # <<>>
         THEN start_zoom_animation(0, FALSE)
         ELSE UNCHANGED vars
    ELSE UNCHANGED vars

\* cleanup()
cleanup ==
    /\ closed' = closed \cup {image_cache[i].img.id : i \in 1..Len(image_cache)}
    /\ image_cache' = <<>>
    /\ animation_timer' = "None"
    /\ shutdown' = TRUE
    /\ UNCHANGED <<current_path, current_image, mouse_quadrant, is_animating,
                   current_frame, zoom_start_bounds, zoom_end_bounds, pending_path,
                   zoom_direction, next_id, xlim, ylim, last_load, failed_load>>

\* ------------------------------------------------------------------ events
\* event.data is <<xdata, ydata>>; a pointer event outside the axes carries
\* no data coordinates (both None), written <<>>
MouseEvents ==
    {[inaxes |-> TRUE, data |-> p] : p \in MousePoints}
        \cup {[inaxes |-> FALSE, data |-> <<>>]}

\* scroll events: up or down inside the axes, or outside them
ScrollEvents ==
    {[inaxes |-> TRUE, button |-> b] : b \in {"up", "down"}}
        \cup {[inaxes |-> FALSE, button |-> "up"]}

\* the canvas delivers a pointer move while plt.show() runs
MouseMove ==
    /\ ~shutdown
    /\ \E event \in MouseEvents : on_mouse_move(event)

\* the tile of `path` can be loaded within the handles of the run: it is
\* cached, or the loader may still create a handle
CanLoad(path) ==
    \/ get_image_filename(path) \in CacheKeys(image_cache)
    \/ next_id <= MaxHandles

\* the canvas delivers a scroll; the hierarchy explored ends at MaxDepth, and
\* a zoom-in is asked for only when its tile can be loaded at completion
Scroll ==
    /\ ~shutdown
    /\ \E event \in ScrollEvents :
           /\ event.button = "up" =>
                  /\ Depth(current_path) < MaxDepth
                  /\ CanLoad(append_path(current_path, mouse_quadrant))
           /\ on_scroll(event)

\* the timer fires
Tick ==
    /\ ~shutdown
    /\ animation_timer = "running"
    /\ animate_step

\* run() and main(): plt.show() returns, cleanup() runs, and runs again
Teardown == cleanup

\* arguments <<target_quadrant, zoom_in>> of the direct calls of
\* start_zoom_animation; the quadrant of a zoom-out is not read
DirectCalls == {<<0, TRUE>>, <<2, TRUE>>, <<0, FALSE>>}

\* a caller invokes start_zoom_animation itself
DirectZoom ==
    /\ ~shutdown
    /\ \E call \in DirectCalls :
           /\ call[2] =>
                  /\ Depth(current_path) < MaxDepth
                  /\ CanLoad(append_path(current_path, call[1]))
           /\ start_zoom_animation(call[1], call[2])

Next == MouseMove \/ Scroll \/ Tick \/ Teardown

Spec == Init /\ [][Next]_vars

\* the engine driven by scroll events and by direct calls, the pointer at rest
NextDirect == Scroll \/ Tick \/ Teardown \/ DirectZoom

SpecDirect == Init /\ [][NextDirect]_vars

\* the viewer while plt.show() runs, the pointer at rest: the window is not
\* closed, and a started timer keeps firing every 33 ms until it is stopped
NextLive == Scroll \/ Tick

SpecLive == Init /\ [][NextLive]_vars /\ WF_vars(Tick)

\* the canvas delivers a pointer move over a pixel of the image shown
HoverMove ==
    /\ ~shutdown
    /\ \E p \in HoverPoints :
           /\ p[1] < current_image.size[1]
           /\ p[2] < current_image.size[2]
           /\ on_mouse_move([inaxes |-> TRUE, data |-> p])

\* the viewer at rest on its root image, the pointer moving over it
NextHover == HoverMove

SpecHover == InitHover /\ [][NextHover]_vars

\* ------------------------------------------------------------ cache claims
\* keys of the tiles, the placeholder key set apart
TileKeys(cache) == CacheKeys(cache) \ {PlaceholderKey}

\* the tile key inserted first among those still in the cache
OldestTileKey(cache) ==
    cache[CHOOSE i \in 1..Len(cache) :
              /\ cache[i].key # PlaceholderKey
              /\ \A j \in 1..(i - 1) : cache[j].key = PlaceholderKey].key

\* the ids of the handles the cache holds
CachedIds(cache) == {cache[i].img.id : i \in 1..Len(cache)}

\* a load_current_image call was made in the step
LoadStep == last_load' # last_load

\* C1: the image cache never holds more than cache_size entries whose key is
\* not the placeholder key.
C1_AtMostNTiles == Cardinality(TileKeys(image_cache)) <= cache_size

\* C2: the placeholder entry is exempt from the capacity count and from the
\* eviction: before cleanup a step never removes or replaces it once it is
\* cached, and a tile leaves the cache only when cache_size tiles are cached.
C2_PlaceholderExempt ==
    [][~shutdown' =>
          /\ PlaceholderKey \in CacheKeys(image_cache) =>
                 /\ PlaceholderKey \in CacheKeys(image_cache')
                 /\ CacheGet(image_cache', PlaceholderKey)
                        = CacheGet(image_cache, PlaceholderKey)
          /\ TileKeys(image_cache) \ TileKeys(image_cache') # {} =>
                 Cardinality(TileKeys(image_cache)) >= cache_size]_vars

\* C3: a successful load that inserts a new key when cache_size tiles are
\* cached removes exactly one entry, the tile inserted first among those
\* present; a cache hit leaves the cache, order included, as it was.
C3_FifoEviction ==
    [][~shutdown' =>
          /\ (/\ TileKeys(image_cache') \ TileKeys(image_cache) # {}
              /\ Cardinality(TileKeys(image_cache)) >= cache_size)
                 => CacheKeys(image_cache) \ CacheKeys(image_cache')
                        = {OldestTileKey(image_cache)}
          /\ (LoadStep /\ ~last_load'.opened) => image_cache' = image_cache]_vars

\* C4: a failed load for a key leaves the placeholder handle in current_image,
\* and the next load request for that key gives the same handle without
\* calling the loader.
C4_FailedKeyNotReloaded ==
    [][LoadStep =>
          /\ last_load'.failed =>
                 current_image' = CacheGet(image_cache', PlaceholderKey)
          /\ last_load'.key = failed_load.key =>
                 /\ ~last_load'.opened
                 /\ current_image' = failed_load.img]_vars

\* C5: every key of the cache maps to a handle that was not closed; a handle
\* that left the cache was closed; after cleanup the cache is empty and every
\* handle ever created, the placeholder included, is closed.
C5_CachedHandlesLive ==
    /\ CachedIds(image_cache) \cap closed = {}
    /\ \A id \in 1..(next_id - 1) : id \in closed \/ id \in CachedIds(image_cache)
    /\ shutdown => image_cache = <<>> /\ closed = 1..(next_id - 1)

\* cleanup ran after an eviction and after the placeholder was created
C5_Witness ==
    /\ shutdown
    /\ failed_load # NoLoad
    /\ next_id - 1 > cache_size + 1
    /\ closed = 1..(next_id - 1)

\* ------------------------------------------------------- navigation claims
\* quadrant paths as sequences of quadrant indices, up to the depth explored
QuadrantPaths == UNION {[1..n -> Quadrants] : n \in 0..MaxDepth}

\* the canonical string of a quadrant path: its indices joined by "_"
RECURSIVE Encode(_)
Encode(P) ==
    IF P = <<>> THEN <<>>
    ELSE IF Len(P) = 1 THEN <<Digits[P[1] + 1]>>
    ELSE Encode(SubSeq(P, 1, Len(P) - 1)) \o <<"_", Digits[P[Len(P)] + 1]>>

\* the resource key of a quadrant path under the base name root.jpg
ResourceKey(P) ==
    IF P = <<>> THEN <<"r", "o", "o", "t", ".", "j", "p", "g">>
    ELSE <<"r", "o", "o", "t", "_">> \o Encode(P) \o <<".", "j", "p", "g">>

\* the rectangle of quadrant q of a w x h image, midpoints rounded down
QuadrantRect(w, h, q) ==
    <<IF q \in {1, 3} THEN w \div 2 ELSE 0,
      IF q \in {2, 3} THEN h \div 2 ELSE 0,
      IF q \in {1, 3} THEN w ELSE w \div 2,
      IF q \in {2, 3} THEN h ELSE h \div 2>>

FullRect(img) == <<0, 0, img.size[1], img.size[2]>>

\* the step resolved the tile of `key` through the cache: the cached handle on
\* a hit, else the handle now cached under the key or under the placeholder key
ResolvedThroughCache(key) ==
    /\ last_load'.key = key
    /\ IF key \in CacheKeys(image_cache)
       THEN current_image' = CacheGet(image_cache, key) /\ image_cache' = image_cache
       ELSE \E k \in {key, PlaceholderKey} :
                /\ k \in CacheKeys(image_cache')
                /\ current_image' = CacheGet(image_cache', k)

\* while a zoom-in runs: the session set up at the request
C6_Session ==
    (is_animating /\ zoom_direction = 1) =>
        \E P \in QuadrantPaths :
            /\ current_path = Encode(P)
            /\ pending_path = Encode(Append(P, mouse_quadrant))
            /\ zoom_start_bounds = FullRect(current_image)
            /\ zoom_end_bounds = QuadrantRect(current_image.size[1],
                                              current_image.size[2], mouse_quadrant)

\* a step of a zoom-in: nothing of the path and image before the completion
\* tick, the pending path and its tile at it
C6_Step ==
    (is_animating /\ zoom_direction = 1) =>
        IF is_animating'
        THEN current_path' = current_path /\ current_image' = current_image
        ELSE /\ current_path' = pending_path
             /\ \E P \in QuadrantPaths :
                    pending_path = Encode(P) /\ ResolvedThroughCache(ResourceKey(P))

\* C6: a zoom-in at quadrant Q accepted with path P and image size (w,h) has
\* pending_path = append(P,Q), start rect (0,0,w,h), end rect bounds(w,h,Q);
\* current_path and current_image stay until the completion tick, which sets
\* current_path to pending_path and resolves its tile through the cache.
C6_ZoomIn == []C6_Session /\ [][C6_Step]_vars

\* root.jpg missing (placeholder 400x400), zoom-in at quadrant 2 completed
C6_Witness ==
    /\ ~is_animating
    /\ zoom_direction = 1
    /\ current_path = <<"2">>
    /\ pending_path = <<"2">>
    /\ zoom_start_bounds = <<0, 0, 400, 400>>
    /\ zoom_end_bounds = <<0, 200, 200, 400>>
    /\ last_load.key = <<"r", "o", "o", "t", "_", "2", ".", "j", "p", "g">>

\* the step that accepts a zoom-out
C7_Accept ==
    (~is_animating /\ is_animating' /\ zoom_direction' = -1) =>
        \E P \in QuadrantPaths \ {<<>>} :
            LET parent == SubSeq(P, 1, Len(P) - 1)
            IN  /\ current_path = Encode(P)
                /\ current_path' = Encode(parent)
                /\ ResolvedThroughCache(ResourceKey(parent))
                /\ zoom_start_bounds' = QuadrantRect(current_image'.size[1],
                                                     current_image'.size[2], P[Len(P)])
                /\ zoom_end_bounds' = FullRect(current_image')
                /\ current_frame' = 0
                /\ xlim' = xlim
                /\ ylim' = ylim

\* a step of a zoom-out, its completion included
C7_Running ==
    (is_animating /\ zoom_direction = -1) =>
        /\ current_path' = current_path
        /\ current_image' = current_image
        /\ zoom_end_bounds' = zoom_end_bounds
        /\ zoom_start_bounds' = zoom_start_bounds

\* C7: a zoom-out accepted with a non-empty path P sets current_path to pop(P)
\* and loads the parent through the cache at once, before any frame; the start
\* rect is the removed quadrant's bounds on the parent image, the end rect the
\* full parent rect; completion changes neither current_path nor current_image.
C7_ZoomOut == [][C7_Accept /\ C7_Running]_vars

\* zoomed out of "0_2" to "0", animation completed
C7_Witness ==
    /\ ~is_animating
    /\ zoom_direction = -1
    /\ pending_path = <<"0", "_", "2">>
    /\ current_path = <<"0">>
    /\ zoom_start_bounds = QuadrantRect(current_image.size[1], current_image.size[2], 2)
    /\ zoom_end_bounds = FullRect(current_image)
    /\ xlim = <<0, current_image.size[1] * ViewDen>>

\* C8: a step taken while is_animating leaves the session (direction, rects,
\* pending path) as it is and the frame counter never goes back; unless it is
\* the completion or cleanup, it also leaves current_path, current_image, the
\* cache and the timer alone, and changes the view only with a frame advance.
C8_NoRestart ==
    [][is_animating =>
          /\ zoom_direction' = zoom_direction
          /\ zoom_start_bounds' = zoom_start_bounds
          /\ zoom_end_bounds' = zoom_end_bounds
          /\ pending_path' = pending_path
          /\ current_frame' \in {current_frame, current_frame + 1}
          /\ (is_animating' /\ ~shutdown') =>
                 /\ current_path' = current_path
                 /\ current_image' = current_image
                 /\ image_cache' = image_cache
                 /\ animation_timer' = animation_timer
                 /\ current_frame' = current_frame =>
                        xlim' = xlim /\ ylim' = ylim]_vars

\* a session in progress, at which scroll events and direct calls arrive
C8_Witness ==
    /\ is_animating
    /\ ~shutdown
    /\ animation_timer = "running"
    /\ current_frame = 7
    /\ zoom_direction = -1

\* C9: from Idle at the root no step sets up a zoom-out session; a step that
\* does not start a zoom-in leaves the engine idle, without timer, at the root,
\* with the same image and (before cleanup) the same cache.
C9_ZoomOutAtRoot ==
    [][(~is_animating /\ current_path = <<>>) =>
          /\ ~(is_animating' /\ zoom_direction' = -1)
          /\ current_path' = <<>>
          /\ current_image' = current_image
          /\ ~shutdown' => image_cache' = image_cache
          /\ ~is_animating' =>
                 /\ animation_timer' = "None"
                 /\ zoom_direction' = zoom_direction
                 /\ current_frame' = current_frame]_vars

\* Idle at the root after a zoom-out: the next scroll down is such a request
C9_Witness ==
    /\ ~is_animating
    /\ ~shutdown
    /\ current_path = <<>>
    /\ zoom_direction = -1
    /\ animation_timer = "None"

\* C10: after a completed zoom-in from P at q (current_path = pending_path =
\* append(P,q)), the zoom-out that follows sets current_path to P and loads
\* the key of P; its completion leaves current_path at P.
C10_RoundTrip ==
    [][/\ (/\ ~is_animating
           /\ zoom_direction = 1
           /\ pending_path = current_path
           /\ is_animating'
           /\ zoom_direction' = -1) =>
              \E P \in QuadrantPaths, q \in Quadrants :
                  /\ Len(P) < MaxDepth
                  /\ current_path = Encode(Append(P, q))
                  /\ current_path' = Encode(P)
                  /\ get_image_filename(current_path') = ResourceKey(P)
                  /\ last_load'.key = ResourceKey(P)
       /\ (is_animating /\ zoom_direction = -1 /\ ~is_animating') =>
              current_path' = current_path]_vars

\* a zoom-in from "2" at 0 and the zoom-out after it, both completed
C10_Witness ==
    /\ ~is_animating
    /\ zoom_direction = -1
    /\ pending_path = <<"2", "_", "0">>
    /\ current_path = <<"2">>
    /\ last_load.key = ResourceKey(<<2>>)

\* ---------------------------------------------------------- geometry claims
\* the point (x, y) lies in the half-open rectangle b = (x1, y1, x2, y2)
InRect(x, y, b) == b[1] <= x /\ x < b[3] /\ b[2] <= y /\ y < b[4]

\* C11: for every pixel (x, y) of the image shown, the hover classification
\* gives the one quadrant whose get_quadrant_bounds rectangle holds the pixel:
\* the four rectangles cover the image without gap or overlap, and a pixel on
\* a midline goes to the higher-index quadrant.
C11_HoverPartition ==
    LET w == current_image.size[1]
        h == current_image.size[2]
    IN  \A x \in 0..(w - 1), y \in 0..(h - 1) :
            LET q == new_quadrant(current_image, x, y)
            IN  /\ q \in Quadrants
                /\ \A k \in Quadrants :
                       InRect(x, y, get_quadrant_bounds(current_image, k)) <=> k = q
                /\ (x = w \div 2 => q \in {1, 3})
                /\ (y = h \div 2 => q \in {2, 3})

\* the pointer on the crossing of the midlines of the 400 x 400 placeholder,
\* the only pointer position offered there that classifies as quadrant 3
C11_Witness ==
    /\ current_image.size = <<400, 400>>
    /\ mouse_quadrant = 3
    /\ new_quadrant(current_image, 200, 200) = mouse_quadrant

\* ------------------------------------------------------------- path claims
\* C12: current_path is always a well-formed quadrant path: empty, or quadrant
\* indices of 0..3 joined by "_" with no empty element; the hovered quadrant
\* mouse_quadrant, the only one ever appended, is always in 0..3.
C12_PathWellFormed ==
    /\ \E P \in QuadrantPaths : current_path = Encode(P)
    /\ mouse_quadrant \in Quadrants
    /\ (is_animating /\ zoom_direction = 1) =>
           \E P \in QuadrantPaths :
               Len(P) >= 1 /\ pending_path = Encode(P) /\ P[Len(P)] = mouse_quadrant

\* at depth two, reached by a zoom-in at the hovered quadrant 2 and one at 0
C12_Witness ==
    /\ current_path = <<"2", "_", "0">>
    /\ pending_path = current_path
    /\ mouse_quadrant = 0
    /\ ~is_animating

\* --------------------------------------------------------- teardown claims
\* C13: teardown during an animation finalizes it: after cleanup the engine
\* is not animating, the session has run to its end (frame counter at
\* animation_frames, idle view on the image), and for a zoom-in current_path
\* and current_image are either both those of the pending path or both as
\* before the request.
C13_TeardownFinalizes ==
    shutdown =>
        /\ ~is_animating
        /\ animation_timer = "None"
        /\ xlim = <<0, current_image.size[1] * ViewDen>>
        /\ ylim = <<current_image.size[2] * ViewDen, 0>>

\* ----------------------------------------------------------- easing claims
\* the rect (x1, y1, x2, y2) the axes limits show, times ViewDen
ViewShown == <<xlim[1], ylim[2], xlim[2], ylim[1]>>

Scaled(b) == [i \in 1..4 |-> b[i] * ViewDen]

\* C14: with F = 20 the eased parameter, as the numerator f^2(3(F-1)-2f) over
\* (F-1)^3, does not decrease over f = 0..F-1, stays within [0,1], is 0 at
\* f = 0 and 1 at f = F-1; so the rect of the first frame of a session is its
\* start rect and the rect of the last frame its end rect.
C14_Easing ==
    /\ animation_frames = 20
    /\ \A f \in 0..(animation_frames - 1) :
           /\ 0 <= EaseNum(f)
           /\ EaseNum(f) <= ViewDen
           /\ f > 0 => EaseNum(f - 1) <= EaseNum(f)
    /\ EaseNum(0) = 0
    /\ EaseNum(animation_frames - 1) = ViewDen
    /\ (is_animating /\ current_frame = 1) => ViewShown = Scaled(zoom_start_bounds)
    /\ (is_animating /\ current_frame = animation_frames) =>
           ViewShown = Scaled(zoom_end_bounds)

\* the last frame of a zoom-in at quadrant 2 of a 6 x 5 image was drawn
C14_Witness ==
    /\ is_animating
    /\ current_frame = animation_frames
    /\ zoom_start_bounds = <<0, 0, 6, 5>>
    /\ zoom_end_bounds = <<0, 2, 3, 5>>
    /\ ViewShown = Scaled(zoom_end_bounds)

\* ------------------------------------------------------ termination claims
\* the rect of frame f of the session, times ViewDen
FrameRect(f) ==
    [i \in 1..4 |-> Interpolate(zoom_start_bounds[i], zoom_end_bounds[i], f)]

\* a step of the engine while the window stays open
C15_Step ==
    /\ (~is_animating /\ is_animating') =>
           current_frame' = 0 /\ animation_timer' = "running"
    /\ is_animating =>
           IF current_frame < animation_frames
           THEN /\ is_animating'
                /\ current_frame' = current_frame + 1
                /\ ViewShown' = FrameRect(current_frame)
           ELSE /\ ~is_animating'
                /\ current_frame' = current_frame
                /\ animation_timer' = "None"
    /\ (~is_animating /\ ~is_animating') =>
           current_frame' = current_frame /\ animation_timer' = "None"

\* C15: with ticks delivered and no teardown, an accepted zoom request
\* terminates: the session starts at frame 0, every tick emits the frame of
\* the counter and advances it by one up to F-1, the tick after that
\* completes the session (is_animating false, timer dropped), and no frame is
\* emitted in Idle.
C15_Terminates == (is_animating ~> ~is_animating) /\ [][C15_Step]_vars

\* a session that ran its F frames and completed
C15_Witness ==
    /\ ~is_animating
    /\ current_frame = animation_frames
    /\ animation_timer = "None"
    /\ zoom_end_bounds # NoneBounds

\* ---------------------------------------------------------- session claims
\* C16: before teardown a tick timer is active exactly while is_animating is
\* true, and in Idle no session data is left: the timer is dropped and
\* pending_path and the start and end rects are cleared.
C16_SessionOnlyWhileAnimating ==
    ~shutdown =>
        /\ (animation_timer = "running") <=> is_animating
        /\ ~is_animating =>
               /\ pending_path = NoneStr
               /\ zoom_start_bounds = NoneBounds
               /\ zoom_end_bounds = NoneBounds

\* ------------------------------------------------------------- view claims
\* C17: every viewport handed to the axes has its Y bounds swapped: after the
\* frame with interpolated rect (x1,y1,x2,y2) the x-limits are (x1,x2) and the
\* y-limits (y2,y1); in Idle the x-limits are (0,w) and the y-limits (h,0)
\* for the size (w,h) of the current image.
C17_YSwapped ==
    /\ ~is_animating =>
           /\ xlim = <<0, current_image.size[1] * ViewDen>>
           /\ ylim = <<current_image.size[2] * ViewDen, 0>>
    /\ (is_animating /\ current_frame >= 1) =>
           LET rect == FrameRect(current_frame - 1)
           IN  /\ xlim = <<rect[1], rect[3]>>
               /\ ylim = <<rect[4], rect[2]>>
               /\ ylim[1] > ylim[2]

\* frame 9 of a zoom-out from quadrant 2 of a 6 x 5 parent was drawn
C17_Witness ==
    /\ is_animating
    /\ zoom_direction = -1
    /\ current_frame = 10
    /\ zoom_start_bounds = <<0, 2, 3, 5>>
    /\ zoom_end_bounds = <<0, 0, 6, 5>>
    /\ ylim[1] = 5 * ViewDen
    /\ ylim[2] < 2 * ViewDen

\* --------------------------------------------------- displayed-image claims
\* the resource key of the canonical path string under the base name root.jpg
ResourceKeyOf(path) ==
    IF path = <<>> THEN <<"r", "o", "o", "t", ".", "j", "p", "g">>
    ELSE <<"r", "o", "o", "t", "_">> \o path \o <<".", "j", "p", "g">>

\* C18: before cleanup current_image is a handle the cache holds, hence not
\* closed, and it is the entry under the resource key of current_path or the
\* placeholder entry; so no eviction closes the image that stays displayed,
\* in Idle and during a zoom-in or a zoom-out.
C18_CurrentImageCached ==
    ~shutdown =>
        /\ current_image # NoneImage
        /\ current_image.id \notin closed
        /\ \E i \in 1..Len(image_cache) :
               /\ image_cache[i].img = current_image
               /\ image_cache[i].key \in {PlaceholderKey, ResourceKeyOf(current_path)}

\* a zoom-out is running on a parent tile that was loaded by evicting the
\* tile shown before
C18_Witness ==
    /\ ~shutdown
    /\ is_animating
    /\ zoom_direction = -1
    /\ current_frame = 3
    /\ last_load.opened
    /\ ~last_load.failed
    /\ closed # {}
    /\ current_image = CacheGet(image_cache, last_load.key)

\* ---------------------------------------------------- failed-load claims
\* the tile entries of the cache, in insertion order
RECURSIVE TileEntries(_)
TileEntries(cache) ==
    IF cache = <<>> THEN <<>>
    ELSE IF Head(cache).key = PlaceholderKey THEN TileEntries(Tail(cache))
    ELSE <<Head(cache)>> \o TileEntries(Tail(cache))

\* C19: a failed load leaves every tile entry of the cache as it was: nothing
\* is evicted or closed, no entry appears under the failed key, the order of
\* the tile entries stays; the cache changes at most by the placeholder entry
\* added when it was absent.
C19_FailedLoadFrame ==
    [][(LoadStep /\ last_load'.failed) =>
          /\ TileEntries(image_cache') = TileEntries(image_cache)
          /\ closed' = closed
          /\ last_load'.key \notin CacheKeys(image_cache')
          /\ IF PlaceholderKey \in CacheKeys(image_cache)
             THEN image_cache' = image_cache
             ELSE /\ Len(image_cache') = Len(image_cache) + 1
                  /\ SubSeq(image_cache', 1, Len(image_cache)) = image_cache
                  /\ image_cache'[Len(image_cache')].key = PlaceholderKey]_vars

\* the load of a tile failed while another tile filled the cache: the tile is
\* still cached, the placeholder behind it
C19_Witness ==
    /\ last_load.failed
    /\ last_load.key # ResourceKey(<<>>)
    /\ Len(image_cache) = cache_size + 1
    /\ image_cache[cache_size + 1].key = PlaceholderKey
    /\ current_image = image_cache[cache_size + 1].img
    /\ closed = {}

\* ------------------------------------------------------------ hover claims
\* C20: while is_animating no step changes mouse_quadrant, so a zoom-in
\* completes on the path of the quadrant hovered when it was accepted; a step
\* that changes mouse_quadrant happens in Idle and changes nothing of
\* current_path, current_image, the cache and the animation state.
C20_HoverFrame ==
    [][/\ is_animating => mouse_quadrant' = mouse_quadrant
       /\ (is_animating /\ ~is_animating' /\ zoom_direction = 1) =>
              \E P \in QuadrantPaths :
                  /\ Len(P) >= 1
                  /\ current_path' = Encode(P)
                  /\ P[Len(P)] = mouse_quadrant
       /\ mouse_quadrant' # mouse_quadrant =>
              /\ ~is_animating
              /\ UNCHANGED <<current_path, current_image, image_cache, closed,
                             next_id, is_animating, current_frame, zoom_start_bounds,
                             zoom_end_bounds, pending_path, zoom_direction,
                             animation_timer, last_load, failed_load>>]_vars

\* a zoom-in at the hovered quadrant 2 in progress, pointer events arriving
C20_Witness ==
    /\ is_animating
    /\ ~shutdown
    /\ zoom_direction = 1
    /\ current_frame = 5
    /\ mouse_quadrant = 2
    /\ pending_path = <<"2">>

====
